---- MODULE Spec2Model ----
(***************************************************************************)
(* Label-map algebra of instanseg/utils/pytorch_utils.py.                  *)
(*                                                                         *)
(* A tensor is a function from raster indices 0..n-1 to numbers (the code  *)
(* flattens or views every array, so a rank is only a shape <<H, W>> that  *)
(* the neighbourhood operators read).  One call of one operation is one    *)
(* behaviour: Init is the moment of the call (the caller's arrays hold the *)
(* arguments), the actions are the operation's steps, pc = "done" is the   *)
(* moment it has returned or raised: ret is Ok(value) or Raise(exception). *)
(***************************************************************************)
EXTENDS Integers, Sequences, FiniteSets, TLC

VARIABLES
    op,              \* the operation that was called
    pc,              \* "call", "loop" (inside a for loop) or "done"
    tile_1, tile_2,  \* the caller's two label maps (match_labels, iou_test)
    threshold,       \* match_labels: <<num, den>>, the float num/den
    strict,          \* match_labels
    x,               \* the caller's array of a one-array operation
    mask,            \* the caller's second array (dilate: mask, flood_fill: bw_mask)
    bw_seed,         \* the caller's seed (flood_fill)
    dtype,           \* element type of the caller's array x
    num_iterations,  \* connected_components, dilate, expand_labels_map
    patch_size,      \* get_patches
    out,             \* the loop's working array (connected_components: out, flood_fill: bw_seed)
    ii,              \* the loop counter
    printed,         \* whether the 'Reached maximum number of iterations' line was printed
    ret,             \* what the call returned, or the exception it raised
    entry,           \* history: the caller's arrays as they were when the call was made
    remapping        \* the 2 x N table <<keys, values>> (remap_values: remapping,
                     \* match_labels: onehot_remapping)

vars == <<op, pc, tile_1, tile_2, threshold, strict, x, mask, bw_seed, dtype,
          num_iterations, patch_size, out, ii, printed, ret, entry, remapping>>

None == "None"

\* how a call ends: with a value, or with the exception it raised
Ok(v) == [raised |-> None, value |-> v]
Raise(e) == [raised |-> e, value |-> None]

----------------------------------------------------------------------------
(* Bounds of the model *)

\* pixels of a flattened tile (H * W of the label maps given to match_labels)
NumPixels == 3
\* the label values a pixel of a tile can hold: 0 is background
LabelValues == {0, 1, 2, 5}
\* the thresholds tried, as exact fractions num/den (all are exact floats)
Thresholds == {<<1, 4>>, <<1, 2>>, <<3, 4>>}

\* connected_components: the mask is H x W (one image, B = 1) with at most
\* MaxForeground foreground pixels, and num_iterations is drawn from
\* 0..MaxIterations
H == 3
W == 3
MaxForeground == 5
MaxIterations == 3

\* dilate: the mask leaves out at most MaxMaskedOut pixels
MaxMaskedOut == 1
\* flood_fill: the seed holds at most MaxSeed pixels
MaxSeed == 1
\* expand_labels_map, get_patches: at most MaxLabelled labelled pixels, their
\* labels drawn from InstanceLabels
MaxLabelled == 3
InstanceLabels == {1, 2}
\* fill_holes: the mask is height x width
height == 3
width == 5
\* get_patches: lab and image are h x w
h == 4
w == 4

----------------------------------------------------------------------------
(* Tensors *)

Range(f) == {f[p] : p \in DOMAIN f}

SetMax(S) == CHOOSE m \in S : \A s \in S : s <= m

SetMin(S) == CHOOSE m \in S : \A s \in S : m <= s

\* x.max()
TensorMax(t) == SetMax(Range(t))

\* the elements of a set of numbers in ascending order
RECURSIVE SortedSeq(_)
SortedSeq(S) ==
    IF S = {} THEN <<>> ELSE <<SetMin(S)>> \o SortedSeq(S \ {SetMin(S)})

\* torch.unique(x, sorted=True): every value of x, 0 included when x holds it
Unique(t) == SortedSeq(Range(t))

\* torch.zeros_like(x)
ZerosLike(t) == [p \in DOMAIN t |-> 0]

\* the bijections of 1..n
Perms(n) == {f \in [1..n -> 1..n] : \A i, j \in 1..n : f[i] = f[j] => i = j}

----------------------------------------------------------------------------
(* remap_values.  A remapping is <<keys, values>>, two sequences of one    *)
(* length (the 2 x N tensor).                                              *)

\* remapping[0].argsort(): not stable, so any order that sorts the keys
ArgSorts(keys) ==
    {f \in Perms(Len(keys)) :
        \A i, j \in 1..Len(keys) : i < j => keys[f[i]] <= keys[f[j]]}

\* torch.bucketize(v, sorted_keys), right=False: the number of keys below v
\* (the 0-based index of the first key >= v; len(keys) when there is none)
Bucketize(v, sorted_keys) ==
    Cardinality({i \in 1..Len(sorted_keys) : sorted_keys[i] < v})

\* sorted_remapping[1][index]: indexing past the end raises
RemapSorted(sorted_keys, sorted_vals, t) ==
    IF \E p \in DOMAIN t : Bucketize(t[p], sorted_keys) >= Len(sorted_keys)
    THEN Raise("IndexError")
    ELSE Ok([p \in DOMAIN t |-> sorted_vals[Bucketize(t[p], sorted_keys) + 1]])

\* remap_values(remapping, x): the results the call can give, one per order
\* argsort may put equal keys in
remap_values(remapping_, t) ==
    {RemapSorted([i \in 1..Len(remapping_[1]) |-> remapping_[1][f[i]]],
                 [i \in 1..Len(remapping_[1]) |-> remapping_[2][f[i]]], t) :
        f \in ArgSorts(remapping_[1])}

\* torch_fastremap: the keys are the unique values of x itself (0 included
\* when x has background, absent when it has none), the new values 0..n-1
torch_fastremap(t) ==
    IF TensorMax(t) = 0 THEN t
    ELSE LET unique_values == Unique(t)
             new_values == [i \in 1..Len(unique_values) |-> i - 1]
         IN  (CHOOSE r \in remap_values(<<unique_values, new_values>>, t) : TRUE).value

----------------------------------------------------------------------------
(* One-hot encodings.  An encoding is a sequence of rows, a row the set of *)
(* pixels where it holds 1.                                                *)

\* torch_sparse_onehot(x, flatten=True): <<sparse_onehot, unique_values>>.
\* When the compacted map has maximum 0 the first component is the dense
\* tensor of shape (1, 0, H*W), not a sparse matrix.
torch_sparse_onehot(t) ==
    LET unique_values == Unique(t)
        xr == torch_fastremap(t)
    IN  IF TensorMax(xr) = 0
        THEN <<[kind |-> "dense3d", rows |-> <<>>], unique_values>>
        ELSE LET C == TensorMax(xr)
             IN  <<[kind |-> "sparse",
                    rows |-> [z \in 1..C |-> {p \in DOMAIN xr : xr[p] - 1 = z - 1}]],
                   unique_values>>

\* torch_onehot(x)[0]: reshaping H*W zeros to (1, 0, H, W) raises
torch_onehot(t) ==
    IF TensorMax(t) = 0 THEN Raise("RuntimeError")
    ELSE LET unique == SortedSeq(Range(t) \ {0})
         IN  Ok([i \in 1..Len(unique) |-> {p \in DOMAIN t : t[p] = unique[i]}])

\* intersection and union of two rows, kept as the pair the IoU is the
\* quotient of
Overlap(r1, r2) ==
    LET intersection == Cardinality(r1 \cap r2)
    IN  <<intersection, Cardinality(r1) + Cardinality(r2) - intersection>>

\* fast_sparse_dual_iou(onehot1, onehot2): torch.sparse.mm takes two sparse
\* matrices
fast_sparse_dual_iou(onehot1, onehot2) ==
    IF onehot1.kind # "sparse" \/ onehot2.kind # "sparse" THEN Raise("RuntimeError")
    ELSE Ok([i \in 1..Len(onehot1.rows) |->
            [j \in 1..Len(onehot2.rows) |-> Overlap(onehot1.rows[i], onehot2.rows[j])]])

\* fast_dual_iou(onehot1, onehot2): both padded with empty rows to max_C
\* rows, the quotient cut back to C1 x C2
fast_dual_iou(onehot1, onehot2) ==
    LET C1 == Len(onehot1)
        C2 == Len(onehot2)
        max_C == IF C1 > C2 THEN C1 ELSE C2
        pad1 == [i \in 1..max_C |-> IF i <= C1 THEN onehot1[i] ELSE {}]
        pad2 == [j \in 1..max_C |-> IF j <= C2 THEN onehot2[j] ELSE {}]
        full == [i \in 1..max_C |-> [j \in 1..max_C |-> Overlap(pad1[i], pad2[j])]]
    IN  [i \in 1..C1 |-> [j \in 1..C2 |-> full[i][j]]]

\* iou > threshold on one entry: intersection / union > num / den (a 0/0
\* entry is NaN, which is greater than nothing)
Exceeds(entry_, thr) ==
    /\ entry_[2] > 0
    /\ entry_[1] * thr[2] > thr[1] * entry_[2]

----------------------------------------------------------------------------
(* match_labels *)

\* torch.nonzero(iou > threshold): the 0-based (i, j) of the entries above
\* the threshold, in row-major order
Nonzero(iou, thr) ==
    LET C1 == Len(iou)
        C2 == IF C1 = 0 THEN 0 ELSE Len(iou[1])
        hits == {k \in 0..(C1 * C2 - 1) :
                    Exceeds(iou[(k \div C2) + 1][(k % C2) + 1], thr)}
        order == SortedSeq(hits)
    IN  [n \in 1..Len(order) |-> <<order[n] \div C2, order[n] % C2>>]

\* if unique_values.min() == 0: unique_values = unique_values[unique_values > 0]
DropZero(unique_values) ==
    IF SetMin(Range(unique_values)) = 0
    THEN SelectSeq(unique_values, LAMBDA v : v > 0)
    ELSE unique_values

\* torch.isin(t, values), as the set of pixels where it is true
IsIn(t, values) == {p \in DOMAIN t : t[p] \in Range(values)}

\* t[sel] = new, new a tensor over the selected pixels
IndexPut(t, sel, new) == [p \in DOMAIN t |-> IF p \in sel THEN new[p] ELSE t[p]]

\* t[sel]
Select(t, sel) == [p \in sel |-> t[p]]

\* t * keep.int()
MaskedBy(t, keep) == [p \in DOMAIN t |-> IF p \in keep THEN t[p] ELSE 0]

\* match_labels(t1, t2, thr, strict_): the outcomes of the call, each
\* [ret: the pair returned or the exception, tile_2: what the caller's
\* tile_2 holds afterwards].  The non-strict branch writes into the caller's
\* tile_2 and returns that same array.
match_labels(t1, t2, thr, strict_) ==
    IF TensorMax(t1) = 0 \/ TensorMax(t2) = 0
    THEN IF ~strict_
         THEN {[ret |-> Ok(<<t1, t2>>), tile_2 |-> t2]}
         ELSE {[ret |-> Ok(<<ZerosLike(t1), ZerosLike(t2)>>), tile_2 |-> t2]}
    ELSE
    LET old_enc == torch_sparse_onehot(t1)
        new_enc == torch_sparse_onehot(t2)
        iou == fast_sparse_dual_iou(old_enc[1], new_enc[1])
    IN  IF iou.raised # None THEN {[ret |-> iou, tile_2 |-> t2]}
        ELSE
        LET pairs == Nonzero(iou.value, thr)
            old_unique_values == DropZero(old_enc[2])
            new_unique_values == DropZero(new_enc[2])
        IN  IF Len(pairs) > 0
            THEN LET onehot_remapping ==
                         <<[n \in 1..Len(pairs) |-> new_unique_values[pairs[n][2] + 1]],
                           [n \in 1..Len(pairs) |-> old_unique_values[pairs[n][1] + 1]]>>
                 IN  IF ~strict_
                     THEN LET sel == IsIn(t2, onehot_remapping[1])
                          IN  {IF r.raised # None THEN [ret |-> r, tile_2 |-> t2]
                               ELSE [ret |-> Ok(<<t1, IndexPut(t2, sel, r.value)>>),
                                     tile_2 |-> IndexPut(t2, sel, r.value)] :
                                  r \in remap_values(onehot_remapping, Select(t2, sel))}
                     ELSE LET k1 == MaskedBy(t1, IsIn(t1, onehot_remapping[2]))
                              k2 == MaskedBy(t2, IsIn(t2, onehot_remapping[1]))
                              fg == {p \in DOMAIN k2 : k2[p] > 0}
                          IN  {IF r.raised # None THEN [ret |-> r, tile_2 |-> t2]
                               ELSE [ret |-> Ok(<<k1, IndexPut(k2, fg, r.value)>>),
                                     tile_2 |-> t2] :
                                  r \in remap_values(onehot_remapping, Select(k2, fg))}
            ELSE IF ~strict_
                 THEN {[ret |-> Ok(<<t1, t2>>), tile_2 |-> t2]}
                 ELSE {[ret |-> Ok(<<ZerosLike(t1), ZerosLike(t2)>>), tile_2 |-> t2]}

\* the local onehot_remapping of match_labels when the call comes to an
\* end: the 2 x N table <<tile_2 ids, tile_1 ids>> of line 256, the 2 x 0
\* result of torch.nonzero when no pair is above the threshold, None when
\* the call ends before line 246
onehot_remapping(t1, t2, thr) ==
    IF TensorMax(t1) = 0 \/ TensorMax(t2) = 0 THEN None
    ELSE
    LET old_enc == torch_sparse_onehot(t1)
        new_enc == torch_sparse_onehot(t2)
        iou == fast_sparse_dual_iou(old_enc[1], new_enc[1])
    IN  IF iou.raised # None THEN None
        ELSE
        LET pairs == Nonzero(iou.value, thr)
            old_unique_values == DropZero(old_enc[2])
            new_unique_values == DropZero(new_enc[2])
        IN  IF Len(pairs) > 0
            THEN <<[n \in 1..Len(pairs) |-> new_unique_values[pairs[n][2] + 1]],
                   [n \in 1..Len(pairs) |-> old_unique_values[pairs[n][1] + 1]]>>
            ELSE <<<<>>, <<>>>>

----------------------------------------------------------------------------
(* The calls *)

TilePixels == 0..(NumPixels - 1)

\* the label maps of NumPixels pixels
LabelMaps == [TilePixels -> LabelValues]

Snapshot == [tile_1 |-> tile_1, tile_2 |-> tile_2, x |-> x, mask |-> mask,
             bw_seed |-> bw_seed]

\* the variables an operation does not have
NoTiles == tile_1 = None /\ tile_2 = None /\ threshold = None /\ strict = None
NoArray == x = None /\ mask = None /\ bw_seed = None /\ dtype = None
NoLoop == num_iterations = None /\ out = None /\ ii = None /\ printed = FALSE
Called(name) == op = name /\ pc = "call" /\ ret = None /\ entry = Snapshot

InitMatchLabels ==
    /\ tile_1 \in LabelMaps
    /\ tile_2 \in LabelMaps
    /\ threshold \in Thresholds
    /\ strict \in BOOLEAN
    /\ NoArray /\ NoLoop /\ patch_size = None
    /\ remapping = None
    /\ Called("match_labels")

MatchLabels ==
    /\ op = "match_labels" /\ pc = "call"
    /\ \E o \in match_labels(tile_1, tile_2, threshold, strict) :
          /\ ret' = o.ret
          /\ tile_2' = o.tile_2
    /\ remapping' = onehot_remapping(tile_1, tile_2, threshold)
    /\ pc' = "done"
    /\ UNCHANGED <<op, tile_1, threshold, strict, x, mask, bw_seed, dtype,
                   num_iterations, patch_size, out, ii, printed, entry>>

SpecMatchLabels == InitMatchLabels /\ [][MatchLabels]_vars

\* torch_fastremap(x) on a label map
InitTorchFastremap ==
    /\ x \in LabelMaps
    /\ mask = None /\ bw_seed = None /\ dtype = None
    /\ NoTiles /\ NoLoop /\ patch_size = None
    /\ remapping = None
    /\ Called("torch_fastremap")

TorchFastremap ==
    /\ op = "torch_fastremap" /\ pc = "call"
    /\ ret' = Ok(torch_fastremap(x))
    /\ pc' = "done"
    /\ UNCHANGED <<op, tile_1, tile_2, threshold, strict, x, mask, bw_seed, dtype,
                   num_iterations, patch_size, out, ii, printed, entry, remapping>>

SpecTorchFastremap == InitTorchFastremap /\ [][TorchFastremap]_vars

\* torch_sparse_onehot(x, flatten=True) on a label map
InitTorchSparseOnehot ==
    /\ x \in LabelMaps
    /\ mask = None /\ bw_seed = None /\ dtype = None
    /\ NoTiles /\ NoLoop /\ patch_size = None
    /\ remapping = None
    /\ Called("torch_sparse_onehot")

TorchSparseOnehot ==
    /\ op = "torch_sparse_onehot" /\ pc = "call"
    /\ ret' = Ok(torch_sparse_onehot(x))
    /\ pc' = "done"
    /\ UNCHANGED <<op, tile_1, tile_2, threshold, strict, x, mask, bw_seed, dtype,
                   num_iterations, patch_size, out, ii, printed, entry, remapping>>

SpecTorchSparseOnehot == InitTorchSparseOnehot /\ [][TorchSparseOnehot]_vars

\* iou_test on the two label maps out[0, 0] and out[0, 1]: the overlap
\* matrix by the dense route and by the sparse route
iou_dense(t1, t2) ==
    LET onehot1 == torch_onehot(t1)
        onehot2 == torch_onehot(t2)
    IN  IF onehot1.raised # None THEN onehot1
        ELSE IF onehot2.raised # None THEN onehot2
        ELSE Ok(fast_dual_iou(onehot1.value, onehot2.value))

iou_sparse(t1, t2) ==
    fast_sparse_dual_iou(torch_sparse_onehot(t1)[1], torch_sparse_onehot(t2)[1])

InitIouTest ==
    /\ tile_1 \in LabelMaps
    /\ tile_2 \in LabelMaps
    /\ threshold = None /\ strict = None
    /\ NoArray /\ NoLoop /\ patch_size = None
    /\ remapping = None
    /\ Called("iou_test")

IouTest ==
    /\ op = "iou_test" /\ pc = "call"
    /\ ret' = Ok([iou_dense |-> iou_dense(tile_1, tile_2),
                  iou_sparse |-> iou_sparse(tile_1, tile_2)])
    /\ pc' = "done"
    /\ UNCHANGED <<op, tile_1, tile_2, threshold, strict, x, mask, bw_seed, dtype,
                   num_iterations, patch_size, out, ii, printed, entry, remapping>>

SpecIouTest == InitIouTest /\ [][IouTest]_vars

----------------------------------------------------------------------------
(* The 3 x 3 neighbourhood.  Pixel p of an hh x ww array is at row          *)
(* p \div ww, column p % ww.                                               *)

Grid(hh, ww) == 0..(hh * ww - 1)

Abs(n) == IF n < 0 THEN -n ELSE n

\* the window of kernel_size=3, stride=1, padding=1 around p: the padding
\* is -inf and never the maximum, so only the pixels inside the array count
Adjacent(p, q, ww) ==
    /\ Abs((q \div ww) - (p \div ww)) <= 1
    /\ Abs((q % ww) - (p % ww)) <= 1

\* a window that misses the diagonal neighbours
NeighboursCross(p, hh, ww) ==
    {q \in Grid(hh, ww) :
        Abs((q \div ww) - (p \div ww)) + Abs((q % ww) - (p % ww)) <= 1}

Neighbours(p, hh, ww) ==
    LET r == p \div ww
        c == p % ww
        rows == (IF r = 0 THEN 0 ELSE r - 1)..(IF r = hh - 1 THEN r ELSE r + 1)
        cols == (IF c = 0 THEN 0 ELSE c - 1)..(IF c = ww - 1 THEN c ELSE c + 1)
    IN  {rr * ww + cc : rr \in rows, cc \in cols}

\* F.max_pool2d(t, kernel_size=3, stride=1, padding=1)
max_pool2d(t, hh, ww) ==
    [p \in Grid(hh, ww) |-> SetMax({t[q] : q \in Neighbours(p, hh, ww)})]

\* the arrays of hh x ww pixels with at most n pixels off zero, their
\* values drawn from vals
RECURSIVE SubsetsUpTo(_, _)
SubsetsUpTo(S, n) ==
    IF n = 0 THEN {{}}
    ELSE LET smaller == SubsetsUpTo(S, n - 1)
         IN  smaller \cup {T \cup {e} : T \in smaller, e \in S}

SparseArrays(hh, ww, n, vals) ==
    UNION {{[p \in Grid(hh, ww) |-> IF p \in S THEN f[p] ELSE 0] : f \in [S -> vals]} :
              S \in SubsetsUpTo(Grid(hh, ww), n)}

----------------------------------------------------------------------------
(* connected_components *)

BinaryMasks(hh, ww) == [Grid(hh, ww) -> {0, 1}]

\* mask = x == 1, as the set of pixels where it is true
Foreground(t) == {p \in DOMAIN t : t[p] = 1}

\* out = torch.arange(B * W * H).reshape((B, 1, H, W)); out[~mask] = 0
SeedIndices(t) == [p \in DOMAIN t |-> IF p \in Foreground(t) THEN p ELSE 0]

\* out[mask] = F.max_pool2d(out, kernel_size=3, stride=1, padding=1)[mask]
PropagateRound(o, t, hh, ww) ==
    IndexPut(o, Foreground(t), max_pool2d(o, hh, ww))

InitConnectedComponents ==
    /\ x \in SparseArrays(H, W, MaxForeground, {1})
    /\ num_iterations \in 0..MaxIterations
    /\ dtype = "float32"
    /\ mask = None /\ bw_seed = None
    /\ out = None /\ ii = None /\ printed = FALSE
    /\ NoTiles /\ patch_size = None
    /\ remapping = None
    /\ Called("connected_components")

\* lines 282-286: the seeding, up to the head of the for loop
ConnectedComponentsSeed ==
    /\ op = "connected_components" /\ pc = "call"
    /\ out' = SeedIndices(x)
    /\ ii' = 0
    /\ pc' = "loop"
    /\ UNCHANGED <<op, tile_1, tile_2, threshold, strict, x, mask, bw_seed, dtype,
                   num_iterations, patch_size, printed, ret, entry, remapping>>

\* line 289: one round of the for loop
ConnectedComponentsRound ==
    /\ op = "connected_components" /\ pc = "loop"
    /\ ii < num_iterations
    /\ out' = PropagateRound(out, x, H, W)
    /\ ii' = ii + 1
    /\ UNCHANGED <<op, pc, tile_1, tile_2, threshold, strict, x, mask, bw_seed, dtype,
                   num_iterations, patch_size, printed, ret, entry, remapping>>

\* line 291: the loop is over, out is returned; nothing is printed
ConnectedComponentsReturn ==
    /\ op = "connected_components" /\ pc = "loop"
    /\ ii = num_iterations
    /\ ret' = Ok(out)
    /\ pc' = "done"
    /\ UNCHANGED <<op, tile_1, tile_2, threshold, strict, x, mask, bw_seed, dtype,
                   num_iterations, patch_size, out, ii, printed, entry, remapping>>

NextConnectedComponents ==
    \/ ConnectedComponentsSeed
    \/ ConnectedComponentsRound
    \/ ConnectedComponentsReturn

SpecConnectedComponents ==
    InitConnectedComponents /\ [][NextConnectedComponents]_vars

----------------------------------------------------------------------------
(* dilate, flood_fill, fill_holes, expand_labels_map.  A boolean tensor is *)
(* a tensor of 0 and 1.                                                    *)

\* t > 0
Positive(t) == [p \in DOMAIN t |-> IF t[p] > 0 THEN 1 ELSE 0]

\* ~t on a boolean tensor
Not(t) == [p \in DOMAIN t |-> 1 - t[p]]

\* torch.ones_like(t)
OnesLike(t) == [p \in DOMAIN t |-> 1]

\* dilate's loop: n rounds of x[mask] = max_pool2d(x)[mask]
RECURSIVE DilateRounds(_, _, _, _, _)
DilateRounds(t, sel, n, hh, ww) ==
    IF n = 0 THEN t
    ELSE DilateRounds(IndexPut(t, sel, max_pool2d(t, hh, ww)), sel, n - 1, hh, ww)

\* dilate(x, mask, num_iterations) on an array of element type dt:
\* [ret: the array returned, x: what the caller's x holds afterwards].
\* _to_ndim gives a view and .float() gives the array itself when it is
\* float32 already, so the rounds then write into the caller's x; of any
\* other element type .float() is a copy.
dilate(t, m, n, dt, hh, ww) ==
    LET r == DilateRounds(t, Foreground(m), n, hh, ww)
    IN  [ret |-> Ok(r), x |-> IF dt = "float32" THEN r ELSE t]

\* lines 530-531: one round of flood_fill
FloodRound(seed, bm, hh, ww) ==
    LET grown == max_pool2d(seed, hh, ww)
    IN  [p \in DOMAIN seed |-> IF grown[p] > 0 /\ bm[p] > 0 THEN 1 ELSE 0]

\* max_iterations = max(bw_seed.shape[-1], bw_seed.shape[-2])
max_iterations(hh, ww) == IF ww > hh THEN ww ELSE hh

\* flood_fill's loop from round i on: [value: the region returned, printed:
\* whether the loop ran out and the line was printed]
RECURSIVE FloodLoop(_, _, _, _, _)
FloodLoop(seed, bm, i, hh, ww) ==
    IF i = max_iterations(hh, ww) THEN [value |-> Positive(seed), printed |-> TRUE]
    ELSE LET bw_seed2 == FloodRound(seed, bm, hh, ww)
         IN  IF seed = bw_seed2 THEN [value |-> Positive(bw_seed2), printed |-> FALSE]
             ELSE FloodLoop(bw_seed2, bm, i + 1, hh, ww)

\* flood_fill(bw_mask, bw_seed): both arguments are cloned
flood_fill(bm, seed, hh, ww) == FloodLoop(seed, bm, 0, hh, ww)

\* the num_iterations fill_holes gives dilate
FillHolesDilations == 3

\* fill_holes(bw_mask) on a boolean mask (dilate copies it)
fill_holes(bm, hh, ww) ==
    LET seed == Positive(dilate(bm, OnesLike(bm), FillHolesDilations, "bool", hh, ww).ret.value)
        filled == flood_fill(Not(bm), Not(seed), hh, ww)
    IN  [value |-> Not(filled.value), printed |-> filled.printed]

\* find_boundaries_max_pool_labeled, as the set of pixels where it is true
find_boundaries_max_pool_labeled(t, hh, ww) ==
    LET max_pooled == max_pool2d(t, hh, ww)
    IN  {p \in DOMAIN t : max_pooled[p] # t[p]}

\* no boundary pixel at all
NoBoundaries(t, hh, ww) == {}

\* every boundary pixel, background included
AnyBoundaries(t, hh, ww) == find_boundaries_max_pool_labeled(t, hh, ww)

\* find_hard_boundaries, as the set of pixels where it is true
find_hard_boundaries(t, hh, ww) ==
    find_boundaries_max_pool_labeled(t, hh, ww) \cap {p \in DOMAIN t : t[p] > 0}

\* expand_labels_map's loop: the rounds write into labeled_image, which is
\* a view of the caller's array
RECURSIVE expand_labels_map(_, _, _, _)
expand_labels_map(t, n, hh, ww) ==
    IF n = 0 THEN t
    ELSE LET valid_region == DOMAIN t \ find_hard_boundaries(t, hh, ww)
         IN  expand_labels_map(IndexPut(t, valid_region, max_pool2d(t, hh, ww)),
                               n - 1, hh, ww)

InitDilate ==
    /\ x \in SparseArrays(H, W, MaxForeground, {1})
    /\ mask \in {Not(m) : m \in SparseArrays(H, W, MaxMaskedOut, {1})}
    /\ num_iterations \in 0..MaxIterations
    /\ dtype \in {"bool", "float32"}
    /\ bw_seed = None /\ out = None /\ ii = None /\ printed = FALSE
    /\ NoTiles /\ patch_size = None
    /\ remapping = None
    /\ Called("dilate")

Dilate ==
    /\ op = "dilate" /\ pc = "call"
    /\ LET o == dilate(x, mask, num_iterations, dtype, H, W)
       IN  ret' = o.ret /\ x' = o.x
    /\ pc' = "done"
    /\ UNCHANGED <<op, tile_1, tile_2, threshold, strict, mask, bw_seed, dtype,
                   num_iterations, patch_size, out, ii, printed, entry, remapping>>

InitExpandLabelsMap ==
    /\ x \in SparseArrays(H, W, MaxLabelled, InstanceLabels)
    /\ num_iterations \in 0..MaxIterations
    /\ dtype = "float32"
    /\ mask = None /\ bw_seed = None /\ out = None /\ ii = None /\ printed = FALSE
    /\ NoTiles /\ patch_size = None
    /\ remapping = None
    /\ Called("expand_labels_map")

\* the array returned is the caller's own, rewritten
ExpandLabelsMap ==
    /\ op = "expand_labels_map" /\ pc = "call"
    /\ x' = expand_labels_map(x, num_iterations, H, W)
    /\ ret' = Ok(x')
    /\ pc' = "done"
    /\ UNCHANGED <<op, tile_1, tile_2, threshold, strict, mask, bw_seed, dtype,
                   num_iterations, patch_size, out, ii, printed, entry, remapping>>

SpecExpandLabelsMap == InitExpandLabelsMap /\ [][ExpandLabelsMap]_vars

InitFillHoles ==
    /\ x \in BinaryMasks(height, width)
    /\ dtype = "bool"
    /\ mask = None /\ bw_seed = None
    /\ NoTiles /\ NoLoop /\ patch_size = None
    /\ remapping = None
    /\ Called("fill_holes")

FillHoles ==
    /\ op = "fill_holes" /\ pc = "call"
    /\ LET o == fill_holes(x, height, width)
       IN  ret' = Ok(o.value) /\ printed' = o.printed
    /\ pc' = "done"
    /\ UNCHANGED <<op, tile_1, tile_2, threshold, strict, x, mask, bw_seed, dtype,
                   num_iterations, patch_size, out, ii, entry, remapping>>

SpecFillHoles == InitFillHoles /\ [][FillHoles]_vars

InitFloodFill ==
    /\ mask \in SparseArrays(H, W, MaxForeground, {1})
    /\ bw_seed \in SparseArrays(H, W, MaxSeed, {1})
    /\ dtype = "bool"
    /\ x = None /\ num_iterations = None
    /\ out = None /\ ii = None /\ printed = FALSE
    /\ NoTiles /\ patch_size = None
    /\ remapping = None
    /\ Called("flood_fill")

\* lines 525-528: the clones, up to the head of the for loop
FloodFillClone ==
    /\ op = "flood_fill" /\ pc = "call"
    /\ out' = bw_seed
    /\ ii' = 0
    /\ pc' = "loop"
    /\ UNCHANGED <<op, tile_1, tile_2, threshold, strict, x, mask, bw_seed, dtype,
                   num_iterations, patch_size, printed, ret, entry, remapping>>

\* lines 530-534: one round, which returns when it changed nothing
FloodFillRound ==
    /\ op = "flood_fill" /\ pc = "loop"
    /\ ii < max_iterations(H, W)
    /\ LET bw_seed2 == FloodRound(out, mask, H, W)
       IN  IF out = bw_seed2
           THEN /\ ret' = Ok(Positive(bw_seed2))
                /\ pc' = "done"
                /\ UNCHANGED <<out, ii>>
           ELSE /\ out' = bw_seed2
                /\ ii' = ii + 1
                /\ UNCHANGED <<ret, pc>>
    /\ UNCHANGED <<op, tile_1, tile_2, threshold, strict, x, mask, bw_seed, dtype,
                   num_iterations, patch_size, printed, entry, remapping>>

\* lines 535-537: the loop ran out
FloodFillGiveUp ==
    /\ op = "flood_fill" /\ pc = "loop"
    /\ ii = max_iterations(H, W)
    /\ printed' = TRUE
    /\ ret' = Ok(Positive(out))
    /\ pc' = "done"
    /\ UNCHANGED <<op, tile_1, tile_2, threshold, strict, x, mask, bw_seed, dtype,
                   num_iterations, patch_size, out, ii, entry, remapping>>

NextFloodFill == FloodFillClone \/ FloodFillRound \/ FloodFillGiveUp

SpecFloodFill == InitFloodFill /\ [][NextFloodFill]_vars

----------------------------------------------------------------------------
(* centroids_from_lab, get_patches.  The image's values play no part in    *)
(* where a patch is read from: a patch is the table of the (row, column)   *)
(* it gathers.                                                             *)

SumOver(S, f) ==
    LET RECURSIVE Sum(_)
        Sum(T) == IF T = {} THEN 0
                  ELSE LET e == CHOOSE e \in T : TRUE IN f[e] + Sum(T \ {e})
    IN  Sum(S)

\* centroids_from_lab: per row of the sparse encoding the sums of the row
\* and column coordinates and the area they are divided by
centroids_from_lab(lab, hh, ww) ==
    LET enc == torch_sparse_onehot(lab)
    IN  IF enc[1].kind # "sparse" THEN Raise("RuntimeError")
        ELSE Ok(<<[n \in 1..Len(enc[1].rows) |->
                     [sum_0 |-> SumOver(enc[1].rows[n], [p \in DOMAIN lab |-> p \div ww]),
                      sum_1 |-> SumOver(enc[1].rows[n], [p \in DOMAIN lab |-> p % ww]),
                      area |-> Cardinality(enc[1].rows[n])]],
                  enc[2]>>)

\* (c.clamp(min=lo, max=hi) - lo).long() for the centroid coordinate
\* c = sum / area >= 0: clamp gives hi when lo > hi, and with whole lo and
\* hi the truncation of the clamped quotient is the clamped whole quotient
WindowStart(sum, area, lo, hi) ==
    LET q == sum \div area
        clamped == IF lo > hi THEN hi
                   ELSE IF q < lo THEN lo
                   ELSE IF q >= hi THEN hi ELSE q
    IN  clamped - lo

\* get_patches(lab, image, patch_size): <<out, label_ids>>, out[n] the
\* patch_size x patch_size table of the coordinates gathered for row n.
\* The gather reads (2 * window_size)^2 pixels per instance; reshaping them
\* to patch_size x patch_size raises when the two differ.
get_patches(lab, ps, hh, ww) ==
    LET cl == centroids_from_lab(lab, hh, ww)
    IN  IF cl.raised # None THEN cl
        ELSE
        LET centroids == cl.value[1]
            label_ids == cl.value[2]
            N == Len(centroids)
            window_size == ps \div 2
            slice_size == window_size * 2
            top == [n \in 1..N |-> WindowStart(centroids[n].sum_0, centroids[n].area,
                                               window_size, hh - window_size)]
            left == [n \in 1..N |-> WindowStart(centroids[n].sum_1, centroids[n].area,
                                                window_size, ww - window_size)]
        IN  IF \E n \in 1..N : \/ top[n] < 0 \/ top[n] + slice_size > hh
                                 \/ left[n] < 0 \/ left[n] + slice_size > ww
            THEN Raise("IndexError")
            ELSE IF N * slice_size * slice_size # N * ps * ps \/ N * slice_size = 0
            THEN Raise("RuntimeError")
            ELSE Ok(<<[n \in 1..N |->
                        [ij \in (0..(ps - 1)) \X (0..(ps - 1)) |->
                            <<top[n] + ij[1], left[n] + ij[2]>>]],
                      label_ids>>)

InitGetPatches ==
    /\ x \in SparseArrays(h, w, MaxLabelled, InstanceLabels)
    /\ patch_size \in 1..(IF h < w THEN h ELSE w)
    /\ mask = None /\ bw_seed = None /\ dtype = None
    /\ NoTiles /\ NoLoop
    /\ remapping = None
    /\ Called("get_patches")

GetPatches ==
    /\ op = "get_patches" /\ pc = "call"
    /\ ret' = get_patches(x, patch_size, h, w)
    /\ pc' = "done"
    /\ UNCHANGED <<op, tile_1, tile_2, threshold, strict, x, mask, bw_seed, dtype,
                   num_iterations, patch_size, out, ii, printed, entry, remapping>>

SpecGetPatches == InitGetPatches /\ [][GetPatches]_vars

----------------------------------------------------------------------------
(* find_hard_boundaries called on its own *)

\* a boolean tensor from the set of pixels where it is true
AsTensor(S, hh, ww) == [p \in Grid(hh, ww) |-> IF p \in S THEN 1 ELSE 0]

InitFindHardBoundaries ==
    /\ x \in SparseArrays(H, W, MaxLabelled, InstanceLabels)
    /\ dtype = "float32"
    /\ mask = None /\ bw_seed = None
    /\ NoTiles /\ NoLoop /\ patch_size = None
    /\ remapping = None
    /\ Called("find_hard_boundaries")

FindHardBoundaries ==
    /\ op = "find_hard_boundaries" /\ pc = "call"
    /\ ret' = Ok(AsTensor(find_hard_boundaries(x, H, W), H, W))
    /\ pc' = "done"
    /\ UNCHANGED <<op, tile_1, tile_2, threshold, strict, x, mask, bw_seed, dtype,
                   num_iterations, patch_size, out, ii, printed, entry, remapping>>

SpecFindHardBoundaries == InitFindHardBoundaries /\ [][FindHardBoundaries]_vars

----------------------------------------------------------------------------
(* remap_values called on its own *)

\* the most pairs a table given to remap_values holds
MaxPairs == 2
\* the new ids of a table
NewValues == {7, 8}

\* the 2 x N tables: any keys, repeated ones included
RemappingTables ==
    UNION {{<<k, v>> : k \in [1..n -> LabelValues], v \in [1..n -> NewValues]} :
              n \in 0..MaxPairs}

InitRemapValues ==
    /\ remapping \in RemappingTables
    /\ x \in LabelMaps
    /\ dtype = "int64"
    /\ mask = None /\ bw_seed = None
    /\ NoTiles /\ NoLoop /\ patch_size = None
    /\ op = "remap_values" /\ pc = "call" /\ ret = None /\ entry = Snapshot

RemapValues ==
    /\ op = "remap_values" /\ pc = "call"
    /\ ret' \in remap_values(remapping, x)
    /\ pc' = "done"
    /\ UNCHANGED <<op, tile_1, tile_2, threshold, strict, x, mask, bw_seed, dtype,
                   num_iterations, patch_size, out, ii, printed, entry, remapping>>

SpecRemapValues == InitRemapValues /\ [][RemapValues]_vars

----------------------------------------------------------------------------
(* Any call *)

Init ==
    \/ InitMatchLabels
    \/ InitTorchFastremap
    \/ InitTorchSparseOnehot
    \/ InitIouTest
    \/ InitConnectedComponents
    \/ InitDilate
    \/ InitExpandLabelsMap
    \/ InitFillHoles
    \/ InitFloodFill
    \/ InitGetPatches
    \/ InitRemapValues
    \/ InitFindHardBoundaries

Next ==
    \/ MatchLabels
    \/ TorchFastremap
    \/ TorchSparseOnehot
    \/ IouTest
    \/ ConnectedComponentsSeed
    \/ ConnectedComponentsRound
    \/ ConnectedComponentsReturn
    \/ Dilate
    \/ ExpandLabelsMap
    \/ FillHoles
    \/ FloodFillClone
    \/ FloodFillRound
    \/ FloodFillGiveUp
    \/ GetPatches
    \/ RemapValues
    \/ FindHardBoundaries

Spec == Init /\ [][Next]_vars

----------------------------------------------------------------------------
(* What the properties speak of, read off the label maps themselves *)

\* the pixels of instance id
Instance(t, id) == {p \in DOMAIN t : t[p] = id}

\* the instance ids of a label map
Ids(t) == Range(t) \ {0}

HasBackground(t) == 0 \in Range(t)

\* IoU(A, B) > num/den for two sets of pixels
IoUAbove(A, B, thr) ==
    /\ A \cup B # {}
    /\ Cardinality(A \cap B) * thr[2] > thr[1] * Cardinality(A \cup B)

\* the pairs (a of t1, b of t2) with IoU > thr
MatchedPairs(t1, t2, thr) ==
    {ab \in Ids(t1) \X Ids(t2) :
        IoUAbove(Instance(t1, ab[1]), Instance(t2, ab[2]), thr)}

MatchedOld(t1, t2, thr) == {ab[1] : ab \in MatchedPairs(t1, t2, thr)}
MatchedNew(t1, t2, thr) == {ab[2] : ab \in MatchedPairs(t1, t2, thr)}

AtLeastHalf(thr) == 2 * thr[1] >= thr[2]

Returned(name) == op = name /\ pc = "done" /\ ret.raised = None

----------------------------------------------------------------------------
(* C1..C3: match_labels *)

\* C1: for two label maps that both contain foreground and a threshold
\* >= 0.5, after match_labels (either mode) every pixel of tile_2 whose
\* original id b is in a pair (a, b) with IoU > threshold carries the id a.
C1_MatchedPairCarriesOldId ==
    (/\ Returned("match_labels")
     /\ Ids(entry.tile_1) # {} /\ Ids(entry.tile_2) # {}
     /\ AtLeastHalf(threshold))
    => \A ab \in MatchedPairs(entry.tile_1, entry.tile_2, threshold) :
          \A p \in Instance(entry.tile_2, ab[2]) : ret.value[2][p] = ab[1]

\* C2: in non-strict mode match_labels returns tile_1 as it was given, and
\* every pixel of tile_2 whose original id is in no pair with IoU >
\* threshold keeps its id.
C2_NonStrictKeepsUnmatched ==
    (Returned("match_labels") /\ ~strict)
    => /\ ret.value[1] = entry.tile_1
       /\ \A p \in DOMAIN entry.tile_2 :
             entry.tile_2[p] \notin MatchedNew(entry.tile_1, entry.tile_2, threshold)
                => ret.value[2][p] = entry.tile_2[p]

\* C3: in strict mode the returned tile_1 holds 0 on exactly the pixels of
\* unmatched instances and the given id elsewhere; the returned tile_2 holds
\* 0 on the pixels of unmatched instances and on a matched pixel the id of
\* a tile_1 instance its instance is matched with.
C3_StrictZeroesUnmatched ==
    (Returned("match_labels") /\ strict)
    => /\ \A p \in DOMAIN entry.tile_1 :
             ret.value[1][p] =
                IF entry.tile_1[p] \in MatchedOld(entry.tile_1, entry.tile_2, threshold)
                THEN entry.tile_1[p] ELSE 0
       /\ \A p \in DOMAIN entry.tile_2 :
             IF entry.tile_2[p] \in MatchedNew(entry.tile_1, entry.tile_2, threshold)
             THEN <<ret.value[2][p], entry.tile_2[p]>>
                     \in MatchedPairs(entry.tile_1, entry.tile_2, threshold)
             ELSE ret.value[2][p] = 0

----------------------------------------------------------------------------
(* C8..C10: the encodings *)

\* C8: torch_fastremap returns a map whose positive ids are already exactly
\* 1..K as it was given, with or without background pixels, and compacting
\* twice gives what compacting once gives.
C8_FastremapKeepsCompactMap ==
    Returned("torch_fastremap")
    => /\ Ids(entry.x) = 1..Cardinality(Ids(entry.x)) => ret.value = entry.x
       /\ torch_fastremap(ret.value) = ret.value

\* C9: torch_sparse_onehot returns K rows and K ids, K the number of
\* distinct positive labels; row i is the indicator of the pixels labelled
\* with the i-th id; the ids ascend and 0 is not among them.
C9_RowsAndIdsCorrespond ==
    Returned("torch_sparse_onehot")
    => LET rows == ret.value[1].rows
           ids == ret.value[2]
       IN  /\ Len(rows) = Cardinality(Ids(entry.x))
           /\ Len(ids) = Cardinality(Ids(entry.x))
           /\ \A i \in 1..Len(ids) : rows[i] = Instance(entry.x, ids[i])
           /\ \A i, j \in 1..Len(ids) : i < j => ids[i] < ids[j]
           /\ 0 \notin Range(ids)

\* C10: whenever both routes give a matrix, the dense and the sparse overlap
\* matrix have the same shape and the same intersection and union counts.
C10_DenseEqualsSparse ==
    (/\ Returned("iou_test")
     /\ ret.value.iou_dense.raised = None
     /\ ret.value.iou_sparse.raised = None)
    => ret.value.iou_dense.value = ret.value.iou_sparse.value

----------------------------------------------------------------------------
(* C4: connected_components *)

\* the pixels of fg a king reaches from the set S in at most k moves that
\* stay inside fg
RECURSIVE KingReach(_, _, _, _, _)
KingReach(S, fg, k, hh, ww) ==
    LET next == S \cup {q \in fg : \E s \in S : Adjacent(s, q, ww)}
    IN  IF k = 0 \/ next = S THEN S ELSE KingReach(next, fg, k - 1, hh, ww)

\* the 8-connected component of each foreground pixel
Components(fg, hh, ww) ==
    [p \in fg |-> KingReach({p}, fg, Cardinality(fg), hh, ww)]

\* every pixel of every component is within n king moves, inside the
\* component, of the component's highest-index pixel
WithinRounds(fg, n, hh, ww) ==
    LET comp == Components(fg, hh, ww)
        tops == {SetMax(comp[p]) : p \in fg}
    IN  \A m \in tops : KingReach({m}, fg, n, hh, ww) = comp[m]

\* o labels every foreground pixel with the highest raster index of its
\* component, different components differently, and the background with 0
LabelsComponents(o, fg, hh, ww) ==
    /\ \A p \in DOMAIN o \ fg : o[p] = 0
    /\ LET comp == Components(fg, hh, ww)
       IN  /\ \A p \in fg : o[p] = SetMax(comp[p])
           /\ \A p, q \in fg : comp[p] # comp[q] => o[p] # o[q]

SeveralComponents(fg, hh, ww) ==
    LET comp == Components(fg, hh, ww)
    IN  \E p, q \in fg : comp[p] # comp[q]

\* C4: when every pixel of each component is within num_iterations king
\* moves (inside the component) of the component's highest-index pixel,
\* connected_components returns the map that labels each foreground pixel
\* with that index, different components differently, background 0; and a
\* round applied to such a map leaves it unchanged.
C4_ConnectedComponentsConverges ==
    /\ (/\ Returned("connected_components")
        /\ WithinRounds(Foreground(x), num_iterations, H, W))
       => LabelsComponents(ret.value, Foreground(x), H, W)
    /\ (op = "connected_components" /\ pc = "loop")
       => \/ PropagateRound(out, x, H, W) = out
          \/ ~LabelsComponents(out, Foreground(x), H, W)

\* two components, one of them needing every one of at least two rounds
C4_Witness ==
    /\ Returned("connected_components")
    /\ num_iterations >= 2
    /\ WithinRounds(Foreground(x), num_iterations, H, W)
    /\ ~WithinRounds(Foreground(x), num_iterations - 1, H, W)
    /\ SeveralComponents(Foreground(x), H, W)
    /\ LabelsComponents(ret.value, Foreground(x), H, W)

----------------------------------------------------------------------------
(* C6: fill_holes *)

\* the pixels on the border of an hh x ww image
Border(hh, ww) ==
    {p \in Grid(hh, ww) :
        \/ p \div ww = 0 \/ p \div ww = hh - 1
        \/ p % ww = 0 \/ p % ww = ww - 1}

\* the background pixels connected through background (3 x 3
\* neighbourhood) to the border
OutsideBackground(t, hh, ww) ==
    LET bg == {p \in DOMAIN t : t[p] = 0}
    IN  KingReach(bg \cap Border(hh, ww), bg, Cardinality(bg), hh, ww)

\* C6: fill_holes returns foreground on exactly the input foreground and
\* the background pixels not connected through background to the border.
C6_FillHolesFillsExactlyHoles ==
    Returned("fill_holes")
    => ret.value = [p \in DOMAIN x |->
                       IF x[p] = 1 \/ p \notin OutsideBackground(x, height, width)
                       THEN 1 ELSE 0]

----------------------------------------------------------------------------
(* C5, C7 *)

\* C5: when match_labels, dilate, expand_labels_map, flood_fill, fill_holes
\* or connected_components has returned, every array the caller passed in
\* holds the values it held when the call was made.
C5_InputsUntouched ==
    (/\ pc = "done"
     /\ op \in {"match_labels", "dilate", "expand_labels_map", "flood_fill",
                "fill_holes", "connected_components"})
    => Snapshot = entry

\* C7: for a label map with at least one instance and a patch_size from 1
\* to min(h, w), get_patches returns one patch per instance, each of
\* patch_size x patch_size pixels, gathered from rows 0..h-1 and columns
\* 0..w-1.
C7_PatchesInBounds ==
    (/\ op = "get_patches" /\ pc = "done"
     /\ Ids(x) # {}
     /\ patch_size >= 1 /\ patch_size <= h /\ patch_size <= w)
    => /\ ret.raised = None
       /\ Len(ret.value[1]) = Cardinality(Ids(x))
       /\ \A n \in 1..Len(ret.value[1]) :
             /\ DOMAIN ret.value[1][n] = (0..(patch_size - 1)) \X (0..(patch_size - 1))
             /\ \A ij \in DOMAIN ret.value[1][n] :
                   /\ ret.value[1][n][ij][1] \in 0..(h - 1)
                   /\ ret.value[1][n][ij][2] \in 0..(w - 1)

----------------------------------------------------------------------------
(* flood_fill: where it stops, what it returns, when it warns *)

\* the step "grow by the 3x3 neighbourhood, then intersect with the mask"
\* leaves the region r as it is
FixedPoint(r, bm, hh, ww) == FloodRound(r, bm, hh, ww) = r

\* C11: flood_fill stops at the first round that changes nothing or after
\* max(width, height) rounds, whichever comes first; the region returned is
\* a subset of the mask, and the warning is printed if and only if the
\* region returned is not a fixed point of the step.
C11_FloodFillWarnsIffNotFixed ==
    /\ (op = "flood_fill" /\ pc = "loop") => ii <= max_iterations(H, W)
    /\ Returned("flood_fill") =>
          /\ ii = max_iterations(H, W) \/ FixedPoint(out, mask, H, W)
          /\ Foreground(ret.value) \subseteq Foreground(mask)
          /\ printed <=> ~FixedPoint(ret.value, mask, H, W)

----------------------------------------------------------------------------
(* connected_components: a map returned before the fixed point *)

\* some foreground pixel's value differs from the 3x3 foreground maximum
\* around it
NotConverged(o, t, hh, ww) ==
    \E p \in Foreground(t) : o[p] # max_pool2d(o, hh, ww)[p]

\* C12: when connected_components returns after its rounds without having
\* reached a fixed point, it reports a non-convergence warning together
\* with the label map; no map short of the fixed point is returned silently.
C12_NonConvergenceIsReported ==
    (Returned("connected_components") /\ NotConverged(ret.value, x, H, W))
        => printed

----------------------------------------------------------------------------
(* remap_values: a value the table has no key for *)

\* the values of t that are no key of the table
Unmapped(table, t) == Range(t) \ Range(table[1])

\* C13: remap_values called with a value that is not a key of the table
\* ends in an error, whether the value lies below, between or above the
\* keys; it never returns an array in which that value has been replaced
\* by the new id of another key.
C13_UnmappedValueRaises ==
    (op = "remap_values" /\ pc = "done" /\ Unmapped(remapping, x) # {})
        => ret.raised # None

----------------------------------------------------------------------------
(* match_labels: the table it builds *)

\* match_labels came to an end having built its table
BuiltTable ==
    /\ op = "match_labels" /\ pc = "done"
    /\ TensorMax(entry.tile_1) > 0 /\ TensorMax(entry.tile_2) > 0
    /\ onehot_remapping(entry.tile_1, entry.tile_2, threshold) # None

\* no key of the table is paired with two different values
IsFunction(table) ==
    \A i, j \in 1..Len(table[1]) :
        table[1][i] = table[1][j] => table[2][i] = table[2][j]

\* C14: the table match_labels builds is a function for every pair of label
\* maps and every threshold in [0, 1): no tile_2 id is paired with two
\* tile_1 ids, so the call has one outcome whatever the order in which pairs
\* of one tile_2 id are sorted.
C14_TableIsAFunction ==
    BuiltTable =>
        /\ IsFunction(remapping)
        /\ Cardinality(match_labels(entry.tile_1, entry.tile_2, threshold, strict)) = 1

----------------------------------------------------------------------------
(* find_hard_boundaries: which pixels it marks *)

\* the 3x3 neighbourhood of p holds a label larger than p's own
LargerNearby(t, p, hh, ww) == \E q \in Neighbours(p, hh, ww) : t[q] > t[p]

\* the 3x3 neighbourhood of p holds a label different from p's own
DifferentNearby(t, p, hh, ww) == \E q \in Neighbours(p, hh, ww) : t[q] # t[p]

\* C15 (as the code has it): find_hard_boundaries marks a pixel if and only
\* if it is foreground and its 3x3 neighbourhood contains a label larger
\* than its own.
C15_MarksLargerNeighbour ==
    Returned("find_hard_boundaries") =>
        \A p \in DOMAIN x :
            ret.value[p] = 1 <=> (x[p] > 0 /\ LargerNearby(x, p, H, W))

\* C15 (as stated): find_hard_boundaries marks a pixel if and only if it is
\* foreground and its 3x3 neighbourhood contains a label different from its
\* own, background or another instance, smaller or larger.
C15_MarksDifferentNeighbour ==
    Returned("find_hard_boundaries") =>
        \A p \in DOMAIN x :
            ret.value[p] = 1 <=> (x[p] > 0 /\ DifferentNearby(x, p, H, W))

\* C15 witness: two instances touch; the pixel of the smaller label is
\* marked, the pixel of the larger one, whose neighbourhood holds the
\* smaller label and background, is not.
C15_Witness ==
    /\ Returned("find_hard_boundaries")
    /\ \E p, q \in DOMAIN x :
          /\ x[p] > 0 /\ x[q] > x[p] /\ q \in Neighbours(p, H, W)
          /\ ret.value[p] = 1 /\ ret.value[q] = 0
          /\ \E b \in Neighbours(q, H, W) : x[b] = 0

----------------------------------------------------------------------------
(* expand_labels_map: what a round changes *)

\* the Chebyshev distance of two pixels
Chebyshev(p, q, ww) ==
    LET dr == Abs((p \div ww) - (q \div ww))
        dc == Abs((p % ww) - (q % ww))
    IN  IF dr > dc THEN dr ELSE dc

\* the labelled pixels of a map
Labelled(t) == {p \in DOMAIN t : t[p] > 0}

\* the labels in the 3x3 neighbourhood of p
LabelsNearby(t, p, hh, ww) == {t[q] : q \in Neighbours(p, hh, ww)} \ {0}

\* round b follows round a: only background pixels change, each to the
\* largest label in its neighbourhood when there is one
OneRing(a, b, hh, ww) ==
    \A p \in DOMAIN a :
        IF a[p] > 0 THEN b[p] = a[p]
        ELSE IF LabelsNearby(a, p, hh, ww) = {} THEN b[p] = 0
        ELSE b[p] = SetMax(LabelsNearby(a, p, hh, ww))

\* C16: each round of expand_labels_map changes only background pixels:
\* every background pixel with a labelled pixel in its 3x3 neighbourhood
\* takes the largest neighbouring label and every foreground pixel keeps its
\* label, so after k rounds every input-foreground pixel still holds its
\* input label and the foreground is exactly the set of pixels within
\* Chebyshev distance k of the input foreground.
C16_ExpandGrowsIntoBackground ==
    Returned("expand_labels_map") =>
        /\ \A j \in 0..(num_iterations - 1) :
              \A a \in {expand_labels_map(entry.x, j, H, W)} :
                  \A b \in {expand_labels_map(a, 1, H, W)} : OneRing(a, b, H, W)
        /\ \A p \in Labelled(entry.x) : ret.value[p] = entry.x[p]
        /\ Labelled(ret.value) =
              {p \in Grid(H, W) :
                  \E q \in Labelled(entry.x) : Chebyshev(p, q, W) <= num_iterations}

\* C16 witness: two rounds on a map of two touching labels; a background
\* pixel next to both has taken the larger one, and a pixel two steps from
\* the input foreground has been reached.
C16_Witness ==
    /\ Returned("expand_labels_map")
    /\ num_iterations = 2
    /\ \E a, b \in Labelled(entry.x) :
          /\ entry.x[a] < entry.x[b] /\ b \in Neighbours(a, H, W)
          /\ ret.value[a] = entry.x[a]
          /\ \E p \in Grid(H, W) \ Labelled(entry.x) :
                /\ {a, b} \subseteq Neighbours(p, H, W)
                /\ ret.value[p] = entry.x[b]
    /\ \E p \in Labelled(ret.value) :
          \A q \in Labelled(entry.x) : Chebyshev(p, q, W) >= 2

----------------------------------------------------------------------------
(* match_labels, non-strict: which pixels come to share an id *)

\* the tile_2 instances a and b were both matched to one tile_1 instance
MatchedToOne(t1, t2, thr, a, b) ==
    \E o \in Ids(t1) :
        <<o, a>> \in MatchedPairs(t1, t2, thr) /\ <<o, b>> \in MatchedPairs(t1, t2, thr)

\* C17: after non-strict match_labels two pixels of tile_2 carry the same
\* id only if they carried the same id before the call or their instances
\* were both matched to the same tile_1 instance; a remapped instance never
\* receives an id that an unmatched tile_2 instance still carries.
C17_NoMergeWithUnmatched ==
    (Returned("match_labels") /\ ~strict) =>
        \A p, q \in DOMAIN entry.tile_2 :
            ret.value[2][p] = ret.value[2][q] =>
                \/ entry.tile_2[p] = entry.tile_2[q]
                \/ MatchedToOne(entry.tile_1, entry.tile_2, threshold,
                                entry.tile_2[p], entry.tile_2[q])

----------------------------------------------------------------------------
(* connected_components: 0 in the output *)

\* C18: in the output of connected_components a pixel holds 0 if and only
\* if it is background in the input, for every mask and every iteration
\* count, a foreground component made of the pixel at raster index 0 alone
\* included.
C18_ZeroIffBackground ==
    Returned("connected_components") =>
        \A p \in DOMAIN x : ret.value[p] = 0 <=> p \notin Foreground(x)


====
